---- MODULE Spec2Model ----
(***************************************************************************)
(* Model of the mail synchronisation, deduplication, conversation          *)
(* aggregation and reply composition of plaude-email-service.              *)
(*                                                                         *)
(* The JSON files of JsonStorage are the variables accounts, messages,     *)
(* syncStates and conversations; the IMAP mailbox of every account is the  *)
(* variable mailbox.  Every service method is one action, executed as a    *)
(* whole (the services are called one after another), except in the        *)
(* specification SpecOverlap, where syncAccount calls run side by side and *)
(* every await on the store is a step.                                     *)
(*                                                                         *)
(* Representation of JavaScript values:                                    *)
(*   undefined string  -> ""        undefined number / id -> 0             *)
(*   undefined array   -> << >>     (the code treats an absent references  *)
(*                                   array and an empty one alike)         *)
(*   uuid()            -> the next value of the counter nextId             *)
(*   new Date()        -> the counter clock                                *)
(***************************************************************************)
EXTENDS Integers, Sequences, FiniteSets, TLC

\* ------------------------------------------------------------------------
\* Bounds of the model
\* ------------------------------------------------------------------------
MaxMailbox == 2
MaxClock == 3
MaxClockAgg == 6
MaxClockConv == 6
MaxPrefixes == 3
MaxClockOverlap == 3
MaxIngest == 3
MaxClockIngest == 4
MaxClockLive == 5
MaxClockRead == 6

\* ------------------------------------------------------------------------
\* Program constants
\* ------------------------------------------------------------------------
DefaultMaxMessages == 5
MaxResultsLimit == 10

NoUid == 0
NoId == 0

StoredAccounts == {"a1", "a2"}
RequestAccounts == StoredAccounts \cup {"ax"}
CapChoices == {1, DefaultMaxMessages}

AccountAddress(a) == a

VARIABLES
  accounts,       \* accounts.json     : account id -> account record
  messages,       \* messages.json     : sequence of UnifiedMessage
  syncStates,     \* sync-state.json   : account id -> SyncState
  conversations,  \* conversations.json: sequence of Conversation
  mailbox,        \* INBOX of each account: sequence of raw items
  nextId,         \* number of uuid() values handed out so far
  clock,          \* current time
  res,            \* what the last service call did and returned
  horizon,        \* the time at which the observed run ends
  running         \* the syncAccount calls that run side by side, by worker

vars == <<accounts, messages, syncStates, conversations, mailbox, nextId,
          clock, res, horizon, running>>

\* ------------------------------------------------------------------------
\* Generic helpers
\* ------------------------------------------------------------------------
Min(x, y) == IF x <= y THEN x ELSE y

Range(s) == {s[i] : i \in 1..Len(s)}

\* Array.prototype.findIndex: the first of the indices that satisfy the test
\* (hits), 0 when none does
FindIndex(hits) ==
  IF hits = {} THEN 0 ELSE CHOOSE i \in hits : \A j \in hits : i <= j

\* all orders in which the elements of a finite set can be listed
Orders(S) ==
  {o \in [1..Cardinality(S) -> S] : \A i, j \in 1..Cardinality(S) : i # j => o[i] # o[j]}

\* ------------------------------------------------------------------------
\* Mailbox transport (IMAP): raw items and the search of fetchMessages
\* ------------------------------------------------------------------------
\* An INBOX is the sequence of its raw items in arrival order; the IMAP uid of
\* an item is its position (uids are handed out in increasing order).
\* mid = "": the mail has no Message-ID header.  parse = "throws": simpleParser
\* rejects the source.  old: received before the account was created.
\* date = 0: the mail has no usable Date header.  Addresses are strings, a
\* body text is the sequence of its characters.
PlainRaw(mid, parse, old) ==
  [mid |-> mid, parse |-> parse, old |-> old,
   inReplyTo |-> "", references |-> << >>, date |-> 1, from |-> "peer",
   to |-> <<"team">>, cc |-> << >>,
   text |-> <<"h", "i", " ", " ", "y", "o", "u", " ">>]

\* a mail that answers the mail with Message-ID to
ReplyRaw(mid, to, refs) ==
  [mid |-> mid, parse |-> "ok", old |-> FALSE,
   inReplyTo |-> to, references |-> refs, date |-> 2, from |-> "Peer",
   to |-> <<"team">>, cc |-> <<"peer", "boss">>,
   text |-> <<">", "h", "i">>]

\* the raw items the INBOX of an account may receive in the specification Spec
ArrivingRaw(a) ==
  IF a = "a1"
    THEN {PlainRaw("m1", "ok", FALSE), ReplyRaw("m2", "m1", <<"m0", "m1">>),
          ReplyRaw("m3", "m1", << >>),
          PlainRaw("", "ok", FALSE), PlainRaw("m2", "ok", TRUE)}
    ELSE {PlainRaw("m1", "ok", FALSE)}

\* the number of raw items the INBOX of an account holds at most
MailboxSize(a) == IF a = "a1" THEN MaxMailbox ELSE MaxMailbox - 1

\* the largest uid in use in an INBOX (the "*" of an IMAP uid range)
LargestUid(box) == Len(box)

\* the search criteria built by fetchMessages: the uid range "cursor+1:*"
\* when there is a cursor, else everything since the account was created.
\* An IMAP range n:* always holds the largest uid in use, also when n is
\* above it, so the newest message is delivered again by an incremental fetch.
SearchMatches(box, cursor) ==
  {u \in DOMAIN box :
     IF cursor # NoUid THEN u >= Min(cursor + 1, LargestUid(box)) ELSE ~box[u].old}

\* ------------------------------------------------------------------------
\* Message normalisation
\* ------------------------------------------------------------------------
\* a thread id taken from the last reference instead of the first
GenerateThreadId_LastReference(raw) ==
  IF Len(raw.references) > 0 THEN raw.references[Len(raw.references)]
  ELSE IF raw.inReplyTo # "" THEN raw.inReplyTo
  ELSE raw.mid

GenerateThreadId(raw) ==
  IF Len(raw.references) > 0 THEN raw.references[1]
  ELSE IF raw.inReplyTo # "" THEN raw.inReplyTo
  ELSE raw.mid

\* parseMessageFast for a raw item that has a source, parses and has a Message-ID
Unified(raw, uid, a, id, now) ==
  [id |-> id, accountId |-> a, providerMessageId |-> raw.mid,
   conversationId |-> NoId,
   inReplyTo |-> raw.inReplyTo, references |-> raw.references,
   threadId |-> GenerateThreadId(raw),
   from |-> raw.from, to |-> raw.to, cc |-> raw.cc, bodyText |-> raw.text,
   date |-> IF raw.date # 0 THEN raw.date ELSE now,
   isRead |-> FALSE, isOutgoing |-> FALSE, status |-> "new",
   providerUid |-> uid]

\* a turn that normalises also a raw item without Message-ID
FetchStep_KeepNoMessageId(acc, raw, uid, a, maxResults, base, now) ==
  IF acc.stopped \/ acc.count >= maxResults THEN [acc EXCEPT !.stopped = TRUE]
  ELSE IF raw.parse = "throws"
    THEN [acc EXCEPT !.taken = @ + 1,
                     !.log = Append(@, [uid |-> uid, outcome |-> "throws"])]
  ELSE [messages |-> Append(acc.messages, Unified(raw, uid, a, base + acc.count + 1, now)),
        count |-> acc.count + 1,
        lastUid |-> IF acc.lastUid = NoUid \/ uid > acc.lastUid THEN uid ELSE acc.lastUid,
        taken |-> acc.taken + 1,
        log |-> Append(acc.log, [uid |-> uid, outcome |-> "parsed"]),
        stopped |-> FALSE]

\* a turn in which a parse failure discards the messages collected so far
FetchStep_ThrowDropsBatch(acc, raw, uid, a, maxResults, base, now) ==
  IF acc.stopped \/ acc.count >= maxResults THEN [acc EXCEPT !.stopped = TRUE]
  ELSE IF raw.parse = "throws"
    THEN [acc EXCEPT !.taken = @ + 1, !.messages = << >>,
                     !.log = Append(@, [uid |-> uid, outcome |-> "throws"])]
  ELSE IF raw.mid = ""
    THEN [acc EXCEPT !.taken = @ + 1,
                     !.log = Append(@, [uid |-> uid, outcome |-> "noMessageId"])]
  ELSE [messages |-> Append(acc.messages, Unified(raw, uid, a, base + acc.count + 1, now)),
        count |-> acc.count + 1,
        lastUid |-> IF acc.lastUid = NoUid \/ uid > acc.lastUid THEN uid ELSE acc.lastUid,
        taken |-> acc.taken + 1,
        log |-> Append(acc.log, [uid |-> uid, outcome |-> "parsed"]),
        stopped |-> FALSE]

\* a turn that counts a dropped raw item against the cap
FetchStep_DroppedCounts(acc, raw, uid, a, maxResults, base, now) ==
  IF acc.stopped \/ acc.count >= maxResults THEN [acc EXCEPT !.stopped = TRUE]
  ELSE IF raw.parse = "throws"
    THEN [acc EXCEPT !.taken = @ + 1, !.count = @ + 1,
                     !.log = Append(@, [uid |-> uid, outcome |-> "throws"])]
  ELSE IF raw.mid = ""
    THEN [acc EXCEPT !.taken = @ + 1, !.count = @ + 1,
                     !.log = Append(@, [uid |-> uid, outcome |-> "noMessageId"])]
  ELSE [messages |-> Append(acc.messages, Unified(raw, uid, a, base + acc.count + 1, now)),
        count |-> acc.count + 1,
        lastUid |-> IF acc.lastUid = NoUid \/ uid > acc.lastUid THEN uid ELSE acc.lastUid,
        taken |-> acc.taken + 1,
        log |-> Append(acc.log, [uid |-> uid, outcome |-> "parsed"]),
        stopped |-> FALSE]

\* one turn of the for-await loop of fetchMessages.  taken counts the raw items
\* the loop body has processed, log lists them with what became of them
FetchStep(acc, raw, uid, a, maxResults, base, now) ==
  IF acc.stopped \/ acc.count >= maxResults THEN [acc EXCEPT !.stopped = TRUE]
  ELSE IF raw.parse = "throws"
    THEN [acc EXCEPT !.taken = @ + 1,
                     !.log = Append(@, [uid |-> uid, outcome |-> "throws"])]
  ELSE IF raw.mid = ""
    THEN [acc EXCEPT !.taken = @ + 1,
                     !.log = Append(@, [uid |-> uid, outcome |-> "noMessageId"])]
  ELSE [messages |-> Append(acc.messages, Unified(raw, uid, a, base + acc.count + 1, now)),
        count |-> acc.count + 1,
        lastUid |-> IF acc.lastUid = NoUid \/ uid > acc.lastUid THEN uid ELSE acc.lastUid,
        taken |-> acc.taken + 1,
        log |-> Append(acc.log, [uid |-> uid, outcome |-> "parsed"]),
        stopped |-> FALSE]

RECURSIVE FetchLoop(_, _, _, _, _, _, _, _)
FetchLoop(acc, box, order, i, a, maxResults, base, now) ==
  IF i > Len(order) THEN acc
  ELSE FetchLoop(FetchStep(acc, box[order[i]], order[i], a, maxResults, base, now),
                 box, order, i + 1, a, maxResults, base, now)

\* fetchMessages that starts from no cursor instead of the saved one
FetchMessages_ForgetCursor(a, box, cursor, maxArg, order, base, now) ==
  FetchLoop([messages |-> << >>, count |-> 0, lastUid |-> NoUid, taken |-> 0,
             log |-> << >>, stopped |-> FALSE],
            box, order, 1, a,
            Min(IF maxArg = 0 THEN DefaultMaxMessages ELSE maxArg, MaxResultsLimit),
            base, now)

\* fetchMessages: order is the order in which the transport delivers the
\* matching messages; the result is { messages, newSyncState.lastUid }
FetchMessages(a, box, cursor, maxArg, order, base, now) ==
  FetchLoop([messages |-> << >>, count |-> 0, lastUid |-> cursor, taken |-> 0,
             log |-> << >>, stopped |-> FALSE],
            box, order, 1, a,
            Min(IF maxArg = 0 THEN DefaultMaxMessages ELSE maxArg, MaxResultsLimit),
            base, now)

\* ------------------------------------------------------------------------
\* JsonStorage
\* ------------------------------------------------------------------------
NoSyncState == [present |-> FALSE, lastUid |-> NoUid, lastSyncAt |-> 0]

GetMessage(msgs, id) ==
  LET i == FindIndex({j \in DOMAIN msgs : msgs[j].id = id}) IN
  IF i = 0 THEN << >> ELSE <<msgs[i]>>

\* the found message in a one-element sequence, or the empty sequence for null
GetMessageByProviderId(msgs, a, pmid) ==
  LET i == FindIndex({j \in DOMAIN msgs : msgs[j].accountId = a /\ msgs[j].providerMessageId = pmid}) IN
  IF i = 0 THEN << >> ELSE <<msgs[i]>>

SaveMessage(msgs, msg) ==
  LET i == FindIndex({j \in DOMAIN msgs : msgs[j].id = msg.id}) IN
  IF i > 0 THEN [msgs EXCEPT ![i] = msg] ELSE Append(msgs, msg)

RECURSIVE SaveMessages(_, _)
SaveMessages(msgs, new) ==
  IF new = << >> THEN msgs
  ELSE SaveMessages(SaveMessage(msgs, Head(new)), Tail(new))

\* an update that writes isRead and leaves the status as it was
UpdateMessage_KeepStatus(msgs, id, status, isRead) ==
  LET i == FindIndex({j \in DOMAIN msgs : msgs[j].id = id}) IN
  IF i > 0 THEN [msgs EXCEPT ![i].isRead = isRead] ELSE msgs

\* an update that writes the status and leaves isRead as it was
UpdateMessage_KeepRead(msgs, id, status, isRead) ==
  LET i == FindIndex({j \in DOMAIN msgs : msgs[j].id = id}) IN
  IF i > 0 THEN [msgs EXCEPT ![i].status = status] ELSE msgs

UpdateMessage(msgs, id, status, isRead) ==
  LET i == FindIndex({j \in DOMAIN msgs : msgs[j].id = id}) IN
  IF i > 0 THEN [msgs EXCEPT ![i].status = status, ![i].isRead = isRead] ELSE msgs

StorageDeleteMessage(msgs, id) == SelectSeq(msgs, LAMBDA m : m.id # id)

SaveSyncState(states, a, lastUid, lastSyncAt) ==
  [states EXCEPT ![a] = [present |-> TRUE, lastUid |-> lastUid, lastSyncAt |-> lastSyncAt]]

\* ------------------------------------------------------------------------
\* AccountService
\* ------------------------------------------------------------------------
UpdateAccountStatus(accts, a, status, error) ==
  [accts EXCEPT ![a].status = status, ![a].lastError = error]

UpdateLastSync(accts, a, now) == [accts EXCEPT ![a].lastSyncAt = now]

\* ------------------------------------------------------------------------
\* The record of the last service call (what it was given, did and returned)
\* ------------------------------------------------------------------------
NoPrev ==
  [op |-> "none", account |-> "", success |-> FALSE, fault |-> "none",
   marked |-> FALSE, stopped |-> FALSE, cursor |-> NoUid]

NoRes ==
  [op |-> "none", account |-> "", success |-> FALSE, error |-> "",
   newMessages |-> 0, cap |-> 0, fault |-> "none", marked |-> FALSE,
   asked |-> FALSE, cursor |-> NoUid, taken |-> 0, stopped |-> FALSE,
   before |-> NoSyncState, boxLen |-> 0, fresh |-> FALSE, storedIds |-> {},
   target |-> NoId, targetMsg |-> << >>, sent |-> FALSE,
   outInReplyTo |-> "", outReferences |-> << >>, outId |-> NoId,
   convCountBefore |-> 0, sends |-> 0, sendError |-> "", matched |-> << >>,
   subject |-> << >>, normalized |-> << >>, log |-> << >>, stored |-> << >>,
   outSubject |-> << >>,
   prev |-> NoPrev]

Summary(r) ==
  [op |-> r.op, account |-> r.account, success |-> r.success, fault |-> r.fault,
   marked |-> r.marked, stopped |-> r.stopped, cursor |-> r.cursor]

\* ------------------------------------------------------------------------
\* The syncAccount calls in progress (specification SpecOverlap)
\* ------------------------------------------------------------------------
\* the workers (requests) that may run syncAccount at the same time
Workers == {1, 2}

\* pc: the await the call is at.  messagesRead, statesRead, accountRead and
\* accountsRead: what a store method has read from its file and not yet
\* written back (in a one-element sequence).  torn: a store method of the call
\* wrote back a copy that was no longer what the file held.  overlapped:
\* another call was in progress while this one was.
NoCall ==
  [pc |-> "idle", account |-> "", cap |-> 0, syncState |-> NoSyncState,
   fetched |-> << >>, lastUid |-> NoUid, lastSyncAt |-> 0, checked |-> 0,
   newMessages |-> << >>, messagesRead |-> << >>, statesRead |-> << >>,
   accountRead |-> << >>, accountsRead |-> << >>,
   torn |-> FALSE, overlapped |-> FALSE, success |-> FALSE]

NoCalls == [w \in Workers |-> NoCall]

\* ------------------------------------------------------------------------
\* SyncService.syncAccount
\* ------------------------------------------------------------------------
\* the steps of syncAccount at which a collaborator may throw
SyncFaults == {"none", "fetch", "saveMessages", "saveSyncState", "updateLastSync"}

\* a duplicate filter that lets every fetched message through
FilterNewMessages_KeepAll(msgs, a, fetched) == fetched

\* the duplicate filter: the fetched messages that are in no stored message's
\* (accountId, providerMessageId)
FilterNewMessages(msgs, a, fetched) ==
  SelectSeq(fetched, LAMBDA m : GetMessageByProviderId(msgs, a, m.providerMessageId) = << >>)

\* the orders in which the transport may deliver what the search matches
DeliveryOrders(a) ==
  IF a \in DOMAIN accounts /\ accounts[a].status = "active"
    THEN Orders(SearchMatches(mailbox[a], syncStates[a].lastUid))
    ELSE {<< >>}

SyncAccountResult(a, cap, fault, markOk, order) ==
  LET known == a \in DOMAIN accounts
      call == [NoRes EXCEPT !.op = "sync", !.account = a, !.cap = cap,
                            !.prev = Summary(res),
                            !.before = IF known THEN syncStates[a] ELSE NoSyncState,
                            !.boxLen = IF known THEN Len(mailbox[a]) ELSE 0,
                            !.fresh = /\ known
                                      /\ res.op = "sync"
                                      /\ res.account = a
                                      /\ res.boxLen = Len(mailbox[a])]
      same == [accounts |-> accounts, messages |-> messages,
               syncStates |-> syncStates, nextId |-> nextId]
  IN
  IF ~known
    THEN [st |-> same, res |-> [call EXCEPT !.error = "Account not found"]]
  ELSE IF accounts[a].status # "active"
    THEN [st |-> same, res |-> [call EXCEPT !.error = "Account is " \o accounts[a].status]]
  ELSE
    LET account == accounts[a]
        cursor == syncStates[a].lastUid
        f == FetchMessages(a, mailbox[a], cursor, cap, order, nextId, clock)
        newMessages == FilterNewMessages(messages, a, f.messages)
        \* try block, up to the step that throws
        msgs1 == IF fault \in {"fetch", "saveMessages"} \/ Len(newMessages) = 0
                   THEN messages ELSE SaveMessages(messages, newMessages)
        states1 == IF fault \in {"fetch", "saveMessages", "saveSyncState"}
                     THEN syncStates ELSE SaveSyncState(syncStates, a, f.lastUid, clock)
        accts1 == IF fault # "none" THEN accounts
                  ELSE LET t == UpdateLastSync(accounts, a, clock) IN
                       IF account.lastError # ""
                         THEN UpdateAccountStatus(t, a, "active", "") ELSE t
        \* catch block
        accts2 == IF fault # "none" /\ markOk
                    THEN UpdateAccountStatus(accts1, a, "error", fault) ELSE accts1
        asked == [call EXCEPT !.asked = TRUE, !.cursor = cursor, !.fault = fault]
    IN
    [st |-> [accounts |-> accts2, messages |-> msgs1, syncStates |-> states1,
             nextId |-> IF fault = "fetch" THEN nextId ELSE nextId + f.count],
     res |-> IF fault = "none"
               THEN [asked EXCEPT !.success = TRUE,
                                  !.newMessages = Len(newMessages),
                                  !.taken = f.taken, !.stopped = f.stopped,
                                  !.log = f.log, !.stored = newMessages,
                                  !.storedIds = {newMessages[i].id : i \in 1..Len(newMessages)}]
               ELSE [asked EXCEPT !.error = fault, !.marked = markOk,
                                  !.taken = IF fault = "fetch" THEN 0 ELSE f.taken,
                                  !.stopped = IF fault = "fetch" THEN FALSE ELSE f.stopped]]

SyncAccount(a, cap, fault, markOk) ==
  /\ clock < horizon
  /\ \E order \in DeliveryOrders(a) :
       LET r == SyncAccountResult(a, cap, fault, markOk, order) IN
       /\ r.res.asked \/ (fault = "none" /\ markOk)
       /\ fault = "none" => markOk
       /\ fault = "saveMessages" =>
            Len(FilterNewMessages(messages, a,
                  FetchMessages(a, mailbox[a], syncStates[a].lastUid, cap, order,
                                nextId, clock).messages)) > 0
       /\ accounts' = r.st.accounts
       /\ messages' = r.st.messages
       /\ syncStates' = r.st.syncStates
       /\ nextId' = r.st.nextId
       /\ res' = r.res
  /\ clock' = clock + 1
  /\ UNCHANGED <<conversations, mailbox, horizon, running>>

\* SyncService.resetSyncState
ResetSyncState(a) ==
  /\ clock < horizon
  /\ syncStates' = SaveSyncState(syncStates, a, NoUid, 0)
  /\ res' = [NoRes EXCEPT !.op = "reset", !.account = a, !.success = TRUE,
                          !.before = syncStates[a], !.prev = Summary(res)]
  /\ clock' = clock + 1
  /\ UNCHANGED <<accounts, messages, conversations, mailbox, nextId, horizon, running>>

\* AccountService.updateAccount with new credentials that pass the connection test
UpdateAccount(a) ==
  /\ clock < horizon
  /\ accounts' = [accounts EXCEPT ![a].status = "active", ![a].lastError = ""]
  /\ res' = [NoRes EXCEPT !.op = "update", !.account = a, !.success = TRUE,
                          !.prev = Summary(res)]
  /\ clock' = clock + 1
  /\ UNCHANGED <<messages, syncStates, conversations, mailbox, nextId, horizon, running>>

\* a mail arrives in the INBOX of account a
Deliver(a, raw) ==
  /\ clock < horizon
  /\ Len(mailbox[a]) < MailboxSize(a)
  /\ mailbox' = [mailbox EXCEPT ![a] = Append(@, raw)]
  /\ UNCHANGED <<accounts, messages, syncStates, conversations, nextId, clock, res, horizon, running>>

\* ------------------------------------------------------------------------
\* MessageService.sendMessage
\* ------------------------------------------------------------------------
MissingId == -1

\* the Message-ID the SMTP transport gives to the mail it sends
SmtpMessageId(id) == "s" \o ToString(id)

\* the message of the error transport.sendMail throws when it fails
SmtpFailure == "refused"

\* a provider that reports success also when transport.sendMail threw
ProviderSendMessage_AlwaysOk(sendOk, id) ==
  [success |-> TRUE, messageId |-> SmtpMessageId(id), error |-> ""]

\* ImapProvider.sendMessage: sendOk tells whether transport.sendMail resolves.
\* The SMTP transport reports the Message-ID of every mail it has sent.
ProviderSendMessage(sendOk, id) ==
  IF sendOk
    THEN [success |-> TRUE, messageId |-> SmtpMessageId(id), error |-> ""]
    ELSE [success |-> FALSE, messageId |-> "",
          error |-> "Failed to send email: " \o SmtpFailure]

\* a references chain that forgets the chain of the message replied to
ReplyReferences_OnlyTarget(original) == <<original.providerMessageId>>

\* the references chain of a reply to the message original
ReplyReferences(original) ==
  IF original.references # << >>
    THEN original.references \o <<original.providerMessageId>>
    ELSE <<original.providerMessageId>>

\* the recipients and the body text of the send requests
RequestTo == <<"peer">>

SnippetMaxLength == 100

RequestBodyText == [i \in 1..(SnippetMaxLength + 1) |-> "x"]

OutgoingMessage(a, id, pmid, inReplyTo, references, now) ==
  [id |-> id, accountId |-> a, providerMessageId |-> pmid,
   conversationId |-> NoId,
   inReplyTo |-> inReplyTo, references |-> references,
   threadId |-> IF Len(references) > 0 THEN references[1] ELSE pmid,
   from |-> AccountAddress(a), to |-> RequestTo, cc |-> << >>,
   bodyText |-> RequestBodyText,
   date |-> now,
   isRead |-> TRUE, isOutgoing |-> TRUE, status |-> "replied",
   providerUid |-> NoUid]

\* the messageCount of the conversation the message target is linked to, 0
\* when there is no such message or conversation
ConversationCountOf(target) ==
  LET t == GetMessage(messages, target)
      cs == IF t = << >> THEN << >>
            ELSE SelectSeq(conversations, LAMBDA c : c.id = t[1].conversationId) IN
  IF cs = << >> THEN 0 ELSE cs[1].messageCount

SendMessageResult(a, target, sendOk) ==
  LET call == [NoRes EXCEPT !.op = "send", !.account = a, !.target = target,
                            !.targetMsg = GetMessage(messages, target),
                            !.convCountBefore = ConversationCountOf(target),
                            !.prev = Summary(res)]
      same == [messages |-> messages, nextId |-> nextId]
  IN
  IF a \notin DOMAIN accounts
    THEN [st |-> same, res |-> [call EXCEPT !.error = "Account not found"]]
  ELSE IF accounts[a].status # "active"
    THEN [st |-> same, res |-> [call EXCEPT !.error = "Account is " \o accounts[a].status]]
  ELSE
    LET originalMessage == IF target # NoId THEN GetMessage(messages, target) ELSE << >>
        found == originalMessage # << >>
        inReplyTo == IF found THEN originalMessage[1].providerMessageId ELSE ""
        references == IF found THEN ReplyReferences(originalMessage[1]) ELSE << >>
        handed == [call EXCEPT !.sent = TRUE, !.outInReplyTo = inReplyTo,
                               !.outReferences = references, !.sends = 1,
                               !.sendError = IF sendOk THEN "" ELSE SmtpFailure]
        messageId == nextId + 1
        result == ProviderSendMessage(sendOk, messageId)
        outgoing == OutgoingMessage(a, messageId,
                                    IF result.messageId # "" THEN result.messageId
                                    ELSE ToString(messageId),
                                    inReplyTo, references, clock)
        saved == SaveMessage(messages, outgoing)
    IN
    IF ~result.success
      THEN [st |-> same,
            res |-> [handed EXCEPT !.error = IF result.error # "" THEN result.error
                                             ELSE "Failed to send message"]]
      ELSE [st |-> [messages |-> IF target # NoId
                                   THEN UpdateMessage(saved, target, "replied", TRUE)
                                   ELSE saved,
                    nextId |-> messageId],
            res |-> [handed EXCEPT !.success = TRUE, !.outId = messageId]]

\* the message ids a send request may name as its reply target
ReplyTargets == {NoId, MissingId} \cup {messages[i].id : i \in 1..Len(messages)}

SendMessage(a, target, sendOk) ==
  /\ clock < horizon
  /\ LET r == SendMessageResult(a, target, sendOk) IN
       /\ r.res.sent \/ sendOk
       /\ messages' = r.st.messages
       /\ nextId' = r.st.nextId
       /\ res' = r.res
  /\ clock' = clock + 1
  /\ UNCHANGED <<accounts, syncStates, conversations, mailbox, horizon, running>>

\* ------------------------------------------------------------------------
\* Specification Spec: synchronisation and sending
\* ------------------------------------------------------------------------
NewAccount == [status |-> "active", lastError |-> "", lastSyncAt |-> 0]

Init ==
  /\ accounts = [a \in StoredAccounts |-> NewAccount]
  /\ messages = << >>
  /\ syncStates = [a \in StoredAccounts |-> NoSyncState]
  /\ conversations = << >>
  /\ mailbox = [a \in StoredAccounts |-> << >>]
  /\ nextId = 0
  /\ clock = 1
  /\ res = NoRes
  /\ horizon = MaxClock
  /\ running = NoCalls

Next ==
  \/ \E a \in StoredAccounts : \E raw \in ArrivingRaw(a) : Deliver(a, raw)
  \/ \E a \in RequestAccounts, cap \in CapChoices, fault \in SyncFaults, markOk \in BOOLEAN :
       SyncAccount(a, cap, fault, markOk)
  \/ \E a \in StoredAccounts : ResetSyncState(a)
  \/ \E a \in StoredAccounts : UpdateAccount(a)
  \/ \E a \in RequestAccounts, target \in ReplyTargets, sendOk \in BOOLEAN :
       SendMessage(a, target, sendOk)

Spec == Init /\ [][Next]_vars

\* ------------------------------------------------------------------------
\* JsonStorage: conversations
\* ------------------------------------------------------------------------
\* Array.prototype.sort by date ascending (stable): one insertion
InsertByDate(sorted, m) ==
  LET k == Cardinality({i \in DOMAIN sorted : sorted[i].date <= m.date}) IN
  SubSeq(sorted, 1, k) \o <<m>> \o SubSeq(sorted, k + 1, Len(sorted))

RECURSIVE SortByDate(_)
SortByDate(s) ==
  IF s = << >> THEN << >>
  ELSE InsertByDate(SortByDate(SubSeq(s, 1, Len(s) - 1)), s[Len(s)])

\* the found conversation in a one-element sequence, or << >> for null
GetConversation(convs, id) ==
  LET i == FindIndex({j \in DOMAIN convs : convs[j].id = id}) IN
  IF i = 0 THEN << >> ELSE <<convs[i]>>

GetConversationByThreadId(convs, a, threadId) ==
  LET i == FindIndex({j \in DOMAIN convs :
                        convs[j].accountId = a /\ threadId \in Range(convs[j].threadIds)}) IN
  IF i = 0 THEN << >> ELSE <<convs[i]>>

SaveConversation(convs, conv) ==
  LET i == FindIndex({j \in DOMAIN convs : convs[j].id = conv.id}) IN
  IF i > 0 THEN [convs EXCEPT ![i] = conv] ELSE Append(convs, conv)

\* updateConversation: updates is a record holding the fields to overwrite
UpdateConversation(convs, id, updates) ==
  LET i == FindIndex({j \in DOMAIN convs : convs[j].id = id}) IN
  IF i > 0
    THEN [convs EXCEPT ![i] = [f \in DOMAIN convs[i] |->
                                 IF f \in DOMAIN updates THEN updates[f] ELSE convs[i][f]]]
    ELSE convs

StorageDeleteConversation(convs, id) == SelectSeq(convs, LAMBDA c : c.id # id)

GetConversationMessages(msgs, cid) ==
  SortByDate(SelectSeq(msgs, LAMBDA m : m.conversationId = cid))

\* updateMessage(id, { conversationId })
UpdateMessageConversation(msgs, id, cid) ==
  LET i == FindIndex({j \in DOMAIN msgs : msgs[j].id = id}) IN
  IF i > 0 THEN [msgs EXCEPT ![i].conversationId = cid] ELSE msgs

\* ------------------------------------------------------------------------
\* ConversationService
\* ------------------------------------------------------------------------
\* the first conversation found for one of the ids in turn, << >> when none
RECURSIVE FirstByThreadIds(_, _, _)
FirstByThreadIds(convs, a, ids) ==
  IF ids = << >> THEN << >>
  ELSE LET c == GetConversationByThreadId(convs, a, Head(ids)) IN
       IF c # << >> THEN c ELSE FirstByThreadIds(convs, a, Tail(ids))

\* a lookup that tries the references before inReplyTo
FindConversationForMessage_ReferencesFirst(convs, message) ==
  FirstByThreadIds(convs, message.accountId,
                   message.references
                     \o (IF message.inReplyTo # "" THEN <<message.inReplyTo>> ELSE << >>)
                     \o <<message.providerMessageId>>)

FindConversationForMessage(convs, message) ==
  FirstByThreadIds(convs, message.accountId,
                   (IF message.inReplyTo # "" THEN <<message.inReplyTo>> ELSE << >>)
                     \o message.references \o <<message.providerMessageId>>)

\* String.prototype.toLowerCase on the addresses in use
ToLowerCase(address) == IF address = "Peer" THEN "peer" ELSE address

\* the first occurrence of every address, compared in lower case
RECURSIVE UniqueByAddress(_)
UniqueByAddress(s) ==
  IF s = << >> THEN << >>
  ELSE LET front == UniqueByAddress(SubSeq(s, 1, Len(s) - 1)) IN
       IF ToLowerCase(s[Len(s)]) \in {ToLowerCase(front[i]) : i \in 1..Len(front)}
         THEN front ELSE Append(front, s[Len(s)])

ExtractParticipants(message) ==
  UniqueByAddress(<<message.from>> \o message.to \o message.cc)

\* replace(/\s+/g, ' '): every run of white space becomes one blank
CollapseWhitespace(text) ==
  LET kept == SelectSeq([i \in 1..Len(text) |-> <<i, text[i]>>],
                        LAMBDA p : p[2] # " " \/ p[1] = 1 \/ text[p[1] - 1] # " ") IN
  [k \in 1..Len(kept) |-> kept[k][2]]

\* replace(/^>+.*$/gm, ''): a line that starts with > is emptied; the text is
\* one line once its white space is collapsed
RemoveQuotedLines(text) ==
  IF text # << >> /\ Head(text) = ">" THEN << >> ELSE text

\* String.prototype.trim on a text whose white space is collapsed
Trim(text) ==
  LET t == IF text # << >> /\ Head(text) = " " THEN Tail(text) ELSE text IN
  IF t # << >> /\ t[Len(t)] = " " THEN SubSeq(t, 1, Len(t) - 1) ELSE t

CreateSnippet(bodyText) ==
  LET cleaned == Trim(RemoveQuotedLines(CollapseWhitespace(bodyText))) IN
  IF Len(cleaned) <= SnippetMaxLength THEN cleaned
  ELSE SubSeq(cleaned, 1, SnippetMaxLength) \o <<".", ".", ".">>

CreateConversationFromMessage(message, id) ==
  [id |-> id, accountId |-> message.accountId,
   snippet |-> CreateSnippet(message.bodyText),
   participants |-> ExtractParticipants(message),
   lastSender |-> message.from, status |-> "open", closedAt |-> 0,
   messageCount |-> 1, unreadCount |-> IF message.isRead THEN 0 ELSE 1,
   lastMessageAt |-> message.date, threadIds |-> <<message.providerMessageId>>]

\* a reopen that leaves closedAt as it was
ReopenConversation_KeepClosedAt(convs, id) ==
  UpdateConversation(convs, id, [status |-> "open"])

ReopenConversation(convs, id) ==
  UpdateConversation(convs, id, [status |-> "open", closedAt |-> 0])

\* the result is the stored conversations, the uuid counter and the
\* conversation returned
FindOrCreateConversation(convs, ids, message) ==
  LET found == FindConversationForMessage(convs, message) IN
  IF found # << >>
    THEN IF found[1].status = "closed"
           THEN [conversations |-> ReopenConversation(convs, found[1].id), nextId |-> ids,
                 conversation |-> [found[1] EXCEPT !.status = "open", !.closedAt = 0]]
           ELSE [conversations |-> convs, nextId |-> ids, conversation |-> found[1]]
    ELSE LET c == CreateConversationFromMessage(message, ids + 1) IN
         [conversations |-> SaveConversation(convs, c), nextId |-> ids + 1,
          conversation |-> c]

\* thread ids that are left as they were
AddThreadId_Never(threadIds, pmid) == threadIds

\* the thread ids with pmid added when it is not among them
AddThreadId(threadIds, pmid) ==
  IF pmid \in Range(threadIds) THEN threadIds ELSE Append(threadIds, pmid)

AddMessageToConversation(convs, cid, message) ==
  LET found == GetConversation(convs, cid) IN
  IF found = << >> THEN convs
  ELSE LET conversation == found[1] IN
       UpdateConversation(convs, cid,
         [snippet |-> CreateSnippet(message.bodyText),
          participants |->
            conversation.participants \o
              SelectSeq(ExtractParticipants(message),
                        LAMBDA p : ToLowerCase(p) \notin
                                     {ToLowerCase(conversation.participants[i]) :
                                        i \in 1..Len(conversation.participants)}),
          lastSender |-> message.from,
          lastMessageAt |-> message.date,
          messageCount |-> conversation.messageCount + 1,
          unreadCount |-> IF message.isRead THEN conversation.unreadCount
                          ELSE conversation.unreadCount + 1,
          threadIds |-> AddThreadId(conversation.threadIds, message.providerMessageId)])

\* Array.from(new Set(s)): the first occurrence of every element, in order
RECURSIVE Unique(_)
Unique(s) ==
  IF s = << >> THEN << >>
  ELSE LET front == Unique(SubSeq(s, 1, Len(s) - 1)) IN
       IF s[Len(s)] \in Range(front) THEN front ELSE Append(front, s[Len(s)])

\* from, to and cc of every message in turn
RECURSIVE AllParticipants(_)
AllParticipants(msgs) ==
  IF msgs = << >> THEN << >>
  ELSE <<Head(msgs).from>> \o Head(msgs).to \o Head(msgs).cc
         \o AllParticipants(Tail(msgs))

\* the oldest of the linked messages
LastMessage_Oldest(linked) == linked[1]

\* messages[messages.length - 1]
LastMessage(linked) == linked[Len(linked)]

\* recalculateStats: the result is the stored conversations
RecalculateStatsResult(convs, msgs, cid) ==
  LET linked == GetConversationMessages(msgs, cid) IN
  IF Len(linked) = 0 THEN StorageDeleteConversation(convs, cid)
  ELSE LET lastMessage == LastMessage(linked) IN
       UpdateConversation(convs, cid,
         [messageCount |-> Len(linked),
          unreadCount |-> Len(SelectSeq(linked, LAMBDA m : ~m.isRead)),
          lastMessageAt |-> lastMessage.date,
          lastSender |-> lastMessage.from,
          snippet |-> CreateSnippet(lastMessage.bodyText),
          participants |-> UniqueByAddress(AllParticipants(linked)),
          threadIds |-> Unique([i \in 1..Len(linked) |-> linked[i].providerMessageId])])

RECURSIVE DeleteAll(_, _)
DeleteAll(msgs, doomed) ==
  IF doomed = << >> THEN msgs
  ELSE DeleteAll(StorageDeleteMessage(msgs, Head(doomed).id), Tail(doomed))

\* ------------------------------------------------------------------------
\* migrate-conversations: the matcher applied to every stored message
\* ------------------------------------------------------------------------
\* one turn of the loop; st holds messages, conversations, nextId and the
\* findOrCreateConversation calls made so far (calls: the message given, the
\* stored conversations before and after, the conversation returned, and the
\* stored conversations at the end of the turn)
MigrateStep(st, message) ==
  IF message.conversationId # NoId THEN st
  ELSE
    LET f == FindOrCreateConversation(st.conversations, st.nextId, message)
        existingMessages == GetConversationMessages(st.messages, f.conversation.id)
        isNewConversation == Len(existingMessages) = 0
        linked == UpdateMessageConversation(st.messages, message.id, f.conversation.id)
        updated == IF ~isNewConversation
                     THEN AddMessageToConversation(f.conversations, f.conversation.id, message)
                     ELSE f.conversations
    IN
    [messages |-> linked,
     conversations |-> updated,
     nextId |-> f.nextId,
     calls |-> Append(st.calls, [message |-> message, before |-> st.conversations,
                                 after |-> f.conversations,
                                 returned |-> f.conversation,
                                 done |-> updated])]

RECURSIVE MigrateLoop(_, _)
MigrateLoop(st, sortedMessages) ==
  IF sortedMessages = << >> THEN st
  ELSE MigrateLoop(MigrateStep(st, Head(sortedMessages)), Tail(sortedMessages))

MigrateConversations ==
  /\ clock < horizon
  /\ Len(messages) > 0
  /\ LET st == MigrateLoop([messages |-> messages, conversations |-> conversations,
                            nextId |-> nextId, calls |-> << >>],
                           SortByDate(messages)) IN
       /\ messages' = st.messages
       /\ conversations' = st.conversations
       /\ nextId' = st.nextId
       /\ res' = [NoRes EXCEPT !.op = "migrate", !.success = TRUE,
                               !.matched = st.calls, !.prev = Summary(res)]
  /\ clock' = clock + 1
  /\ UNCHANGED <<accounts, syncStates, mailbox, horizon, running>>

\* MessageService.deleteMessage
DeleteMessage(id) ==
  /\ clock < horizon
  /\ messages' = StorageDeleteMessage(messages, id)
  /\ res' = [NoRes EXCEPT !.op = "delete", !.target = id,
                          !.targetMsg = GetMessage(messages, id),
                          !.success = GetMessage(messages, id) # << >>,
                          !.error = IF GetMessage(messages, id) # << >> THEN ""
                                    ELSE "Message not found",
                          !.prev = Summary(res)]
  /\ clock' = clock + 1
  /\ UNCHANGED <<accounts, syncStates, conversations, mailbox, nextId, horizon, running>>

\* ConversationService.deleteConversation
DeleteConversation(cid) ==
  /\ clock < horizon
  /\ IF GetConversation(conversations, cid) = << >>
       THEN /\ res' = [NoRes EXCEPT !.op = "deleteConversation", !.target = cid,
                                    !.error = "Conversation not found",
                                    !.prev = Summary(res)]
            /\ UNCHANGED <<messages, conversations>>
       ELSE /\ messages' = DeleteAll(messages, GetConversationMessages(messages, cid))
            /\ conversations' = StorageDeleteConversation(conversations, cid)
            /\ res' = [NoRes EXCEPT !.op = "deleteConversation", !.target = cid,
                                    !.success = TRUE, !.prev = Summary(res)]
  /\ clock' = clock + 1
  /\ UNCHANGED <<accounts, syncStates, mailbox, nextId, horizon, running>>

\* ConversationService.recalculateStats
RecalculateStats(cid) ==
  /\ clock < horizon
  /\ conversations' = RecalculateStatsResult(conversations, messages, cid)
  /\ res' = [NoRes EXCEPT !.op = "recalculate", !.target = cid, !.success = TRUE,
                          !.convCountBefore =
                             IF GetConversation(conversations, cid) = << >> THEN 0
                             ELSE GetConversation(conversations, cid)[1].messageCount,
                          !.prev = Summary(res)]
  /\ clock' = clock + 1
  /\ UNCHANGED <<accounts, messages, syncStates, mailbox, nextId, horizon, running>>

\* ------------------------------------------------------------------------
\* Specification SpecAgg: conversation aggregation over a synchronised INBOX
\* ------------------------------------------------------------------------
\* the ids a request may name: the stored ones and one that names nothing
MessageIds == {MissingId} \cup {messages[i].id : i \in 1..Len(messages)}

ConversationIds == {MissingId} \cup {conversations[i].id : i \in 1..Len(conversations)}

\* the INBOX of a1 holds a mail and the peer's reply to it, that of a2 a mail
\* with the same Message-ID as the first
InitAgg ==
  /\ accounts = [a \in StoredAccounts |-> NewAccount]
  /\ messages = << >>
  /\ syncStates = [a \in StoredAccounts |-> NoSyncState]
  /\ conversations = << >>
  /\ mailbox = [a \in StoredAccounts |->
                  IF a = "a1"
                    THEN <<PlainRaw("m1", "ok", FALSE), ReplyRaw("m2", "m1", <<"m1">>)>>
                    ELSE <<PlainRaw("m1", "ok", FALSE)>>]
  /\ nextId = 0
  /\ clock = 1
  /\ res = NoRes
  /\ horizon = MaxClockAgg
  /\ running = NoCalls

NextAgg ==
  \/ \E a \in StoredAccounts : SyncAccount(a, DefaultMaxMessages, "none", TRUE)
  \/ MigrateConversations
  \/ \E target \in ReplyTargets : SendMessage("a1", target, TRUE)
  \/ \E id \in MessageIds : DeleteMessage(id)
  \/ \E cid \in ConversationIds : DeleteConversation(cid)
  \/ \E cid \in ConversationIds : RecalculateStats(cid)

SpecAgg == InitAgg /\ [][NextAgg]_vars

\* ------------------------------------------------------------------------
\* Specification SpecConv: the matcher over threads, with closed conversations
\* ------------------------------------------------------------------------
\* ConversationService.closeConversation
CloseConversation(cid) ==
  /\ clock < horizon
  /\ IF GetConversation(conversations, cid) = << >>
       THEN /\ res' = [NoRes EXCEPT !.op = "close", !.target = cid,
                                    !.error = "Conversation not found",
                                    !.prev = Summary(res)]
            /\ UNCHANGED conversations
       ELSE /\ conversations' = UpdateConversation(conversations, cid,
                                   [status |-> "closed", closedAt |-> clock])
            /\ res' = [NoRes EXCEPT !.op = "close", !.target = cid,
                                    !.success = TRUE, !.prev = Summary(res)]
  /\ clock' = clock + 1
  /\ UNCHANGED <<accounts, messages, syncStates, mailbox, nextId, horizon, running>>

\* the INBOX contents of a1 the specification starts from:
\*  - two unrelated mails and a mail that answers the second and names the
\*    first in its references;
\*  - a reply to a mail that never reached the INBOX, and a reply to that reply;
\*  - two copies of one mail
ThreadScenarios ==
  { <<PlainRaw("m1", "ok", FALSE), PlainRaw("m2", "ok", FALSE),
      ReplyRaw("m3", "m2", <<"m1">>)>>,
    <<ReplyRaw("m2", "m1", <<"m1">>), ReplyRaw("m3", "m2", <<"m1", "m2">>)>>,
    <<PlainRaw("m1", "ok", FALSE), PlainRaw("m1", "ok", FALSE)>> }

InitConv ==
  /\ accounts = [a \in StoredAccounts |-> NewAccount]
  /\ messages = << >>
  /\ syncStates = [a \in StoredAccounts |-> NoSyncState]
  /\ conversations = << >>
  /\ \E box \in ThreadScenarios :
       mailbox = [a \in StoredAccounts |->
                    IF a = "a1" THEN box ELSE <<PlainRaw("m1", "ok", FALSE)>>]
  /\ nextId = 0
  /\ clock = 1
  /\ res = NoRes
  /\ horizon = MaxClockConv
  /\ running = NoCalls

NextConv ==
  \/ \E a \in StoredAccounts, cap \in CapChoices : SyncAccount(a, cap, "none", TRUE)
  \/ MigrateConversations
  \/ \E cid \in ConversationIds : CloseConversation(cid)
  \/ \E cid \in ConversationIds : RecalculateStats(cid)

SpecConv == InitConv /\ [][NextConv]_vars

\* ------------------------------------------------------------------------
\* Specification SpecSubject: ConversationService.normalizeSubject
\* ------------------------------------------------------------------------
\* A subject is the sequence of its words (the text between white space).
\* the words /^(re|fwd|fw|aw|sv|vs|tr):/i matches (those the subjects here use)
PlainPrefixes == {"Re:", "RE:", "Fwd:", "Fw:", "Aw:", "Sv:", "Vs:", "Tr:"}

\* the words /^(re|fwd|fw|aw|sv|vs|tr)\[\d+\]:/i matches
CountedPrefixes == {"Re[2]:", "Fwd[3]:"}

\* String.prototype.replace with a pattern anchored at ^ (no m flag): the
\* pattern can match at the start of the string only, so the g flag makes it
\* replace no second occurrence; \s* takes the white space after the prefix
ReplaceLeading(subject, prefixes) ==
  IF subject # << >> /\ Head(subject) \in prefixes THEN Tail(subject) ELSE subject

NoSubject == <<"(No", "subject)">>

NormalizeSubject(subject) ==
  LET stripped == ReplaceLeading(ReplaceLeading(subject, PlainPrefixes), CountedPrefixes) IN
  IF stripped = << >> THEN NoSubject ELSE stripped

\* the subjects given: up to MaxPrefixes reply/forward prefixes and a base text
GivenPrefixes == {"Re:", "RE:", "Fwd:", "Fw:", "Re[2]:", "Fwd[3]:"}

BaseTexts == {<<"Project", "Update">>, <<"Hello">>}

RECURSIVE PrefixRuns(_)
PrefixRuns(n) ==
  IF n = 0 THEN {<< >>}
  ELSE PrefixRuns(n - 1) \cup
       {<<p>> \o r : p \in GivenPrefixes, r \in {q \in PrefixRuns(n - 1) : Len(q) = n - 1}}

Subjects == {r \o b : r \in PrefixRuns(MaxPrefixes), b \in BaseTexts}

NormalizeSubjectCall ==
  /\ clock < horizon
  /\ res.op = "none"
  /\ res' = [res EXCEPT !.op = "normalizeSubject", !.success = TRUE,
                        !.normalized = NormalizeSubject(res.subject)]
  /\ clock' = clock + 1
  /\ UNCHANGED <<accounts, messages, syncStates, conversations, mailbox, nextId, horizon, running>>

InitSubject ==
  /\ accounts = [a \in StoredAccounts |-> NewAccount]
  /\ messages = << >>
  /\ syncStates = [a \in StoredAccounts |-> NoSyncState]
  /\ conversations = << >>
  /\ mailbox = [a \in StoredAccounts |-> << >>]
  /\ nextId = 0
  /\ clock = 1
  /\ \E subject \in Subjects : res = [NoRes EXCEPT !.subject = subject]
  /\ horizon = clock + 1
  /\ running = NoCalls

NextSubject == NormalizeSubjectCall

SpecSubject == InitSubject /\ [][NextSubject]_vars

\* ------------------------------------------------------------------------
\* Specification SpecOverlap: syncAccount calls that run side by side
\* ------------------------------------------------------------------------
\* Every await of syncAccount on the store is a step of its own: a store
\* method that changes a file reads the file (readJsonFile), changes the copy
\* it has read and writes the copy back (writeJsonFile).  writeJsonFile writes
\* one file in the order of its calls, so a write is one step.  No call fails
\* here, so no account has a lastError and syncAccount does not reach
\* updateAccountStatus.
InProgress(call) == call.pc \notin {"idle", "done"}

\* getAccountWithCredentials and the two early returns of syncAccount
StartSync(w, a, cap) ==
  /\ clock < horizon
  /\ ~InProgress(running[w])
  /\ running' =
       [v \in Workers |->
          IF v = w
            THEN IF accounts[a].status # "active"
                   THEN [NoCall EXCEPT !.pc = "done", !.account = a, !.cap = cap]
                   ELSE [NoCall EXCEPT !.pc = "getSyncState", !.account = a, !.cap = cap,
                                       !.overlapped = \E u \in Workers \ {w} :
                                                         InProgress(running[u])]
            ELSE IF InProgress(running[v]) /\ accounts[a].status = "active"
                   THEN [running[v] EXCEPT !.overlapped = TRUE]
                   ELSE running[v]]
  /\ clock' = clock + 1
  /\ UNCHANGED <<accounts, messages, syncStates, conversations, mailbox, nextId, res, horizon>>

\* storage.getSyncState
GetSyncState(w) ==
  /\ running[w].pc = "getSyncState"
  /\ running' = [running EXCEPT ![w].pc = "fetch",
                                ![w].syncState = syncStates[running[w].account]]
  /\ UNCHANGED <<accounts, messages, syncStates, conversations, mailbox, nextId, clock, res, horizon>>

\* provider.fetchMessages
FetchMessagesCall(w) ==
  /\ running[w].pc = "fetch"
  /\ \E order \in Orders(SearchMatches(mailbox[running[w].account],
                                       running[w].syncState.lastUid)) :
       LET f == FetchMessages(running[w].account, mailbox[running[w].account],
                              running[w].syncState.lastUid, running[w].cap, order,
                              nextId, clock) IN
       /\ running' = [running EXCEPT ![w].pc = IF Len(f.messages) = 0 THEN "saveSyncState"
                                               ELSE "filter",
                                     ![w].fetched = f.messages,
                                     ![w].lastUid = f.lastUid,
                                     ![w].lastSyncAt = clock]
       /\ nextId' = nextId + f.count
  /\ UNCHANGED <<accounts, messages, syncStates, conversations, mailbox, clock, res, horizon>>

\* one turn of the duplicate filter: storage.getMessageByProviderId
CheckDuplicate(w) ==
  /\ running[w].pc = "filter"
  /\ LET call == running[w]
         message == call.fetched[call.checked + 1]
         existing == GetMessageByProviderId(messages, call.account, message.providerMessageId)
         newMessages == IF existing = << >> THEN Append(call.newMessages, message)
                        ELSE call.newMessages IN
     running' = [running EXCEPT ![w].checked = call.checked + 1,
                                ![w].newMessages = newMessages,
                                ![w].pc = IF call.checked + 1 < Len(call.fetched) THEN "filter"
                                          ELSE IF Len(newMessages) > 0 THEN "saveMessages"
                                          ELSE "saveSyncState"]
  /\ UNCHANGED <<accounts, messages, syncStates, conversations, mailbox, nextId, clock, res, horizon>>

\* storage.saveMessages: readJsonFile
SaveMessagesRead(w) ==
  /\ running[w].pc = "saveMessages"
  /\ running' = [running EXCEPT ![w].pc = "writeMessages", ![w].messagesRead = <<messages>>]
  /\ UNCHANGED <<accounts, messages, syncStates, conversations, mailbox, nextId, clock, res, horizon>>

\* storage.saveMessages: the loop over the copy, and writeJsonFile
SaveMessagesWrite(w) ==
  /\ running[w].pc = "writeMessages"
  /\ messages' = SaveMessages(running[w].messagesRead[1], running[w].newMessages)
  /\ running' = [running EXCEPT ![w].pc = "saveSyncState", ![w].messagesRead = << >>,
                                ![w].torn = @ \/ running[w].messagesRead[1] # messages]
  /\ UNCHANGED <<accounts, syncStates, conversations, mailbox, nextId, clock, res, horizon>>

\* storage.saveSyncState: readJsonFile
SaveSyncStateRead(w) ==
  /\ running[w].pc = "saveSyncState"
  /\ running' = [running EXCEPT ![w].pc = "writeSyncState", ![w].statesRead = <<syncStates>>]
  /\ UNCHANGED <<accounts, messages, syncStates, conversations, mailbox, nextId, clock, res, horizon>>

\* storage.saveSyncState: the change of the copy, and writeJsonFile
SaveSyncStateWrite(w) ==
  /\ running[w].pc = "writeSyncState"
  /\ syncStates' = SaveSyncState(running[w].statesRead[1], running[w].account,
                                 running[w].lastUid, running[w].lastSyncAt)
  /\ running' = [running EXCEPT ![w].pc = "updateLastSync", ![w].statesRead = << >>,
                                ![w].torn = @ \/ running[w].statesRead[1] # syncStates]
  /\ UNCHANGED <<accounts, messages, conversations, mailbox, nextId, clock, res, horizon>>

\* accountService.updateLastSync: storage.getAccount
UpdateLastSyncGet(w) ==
  /\ running[w].pc = "updateLastSync"
  /\ running' = [running EXCEPT ![w].pc = "saveAccount",
                                ![w].accountRead = <<accounts[running[w].account]>>]
  /\ UNCHANGED <<accounts, messages, syncStates, conversations, mailbox, nextId, clock, res, horizon>>

\* accountService.updateLastSync: storage.saveAccount, readJsonFile
SaveAccountRead(w) ==
  /\ running[w].pc = "saveAccount"
  /\ running' = [running EXCEPT ![w].pc = "writeAccounts", ![w].accountsRead = <<accounts>>]
  /\ UNCHANGED <<accounts, messages, syncStates, conversations, mailbox, nextId, clock, res, horizon>>

\* storage.saveAccount: the change of the copy and writeJsonFile; syncAccount
\* then returns success
SaveAccountWrite(w) ==
  /\ running[w].pc = "writeAccounts"
  /\ LET call == running[w] IN
     /\ accounts' = UpdateLastSync([call.accountsRead[1] EXCEPT
                                      ![call.account] = call.accountRead[1]],
                                   call.account, clock)
     /\ running' = [running EXCEPT ![w].pc = "done", ![w].success = TRUE,
                                   ![w].accountRead = << >>, ![w].accountsRead = << >>,
                                   ![w].fetched = << >>, ![w].checked = 0,
                                   ![w].torn = @ \/ call.accountsRead[1] # accounts]
     /\ res' = [NoRes EXCEPT !.op = "sync", !.account = call.account, !.cap = call.cap,
                             !.success = TRUE, !.asked = TRUE,
                             !.cursor = call.syncState.lastUid,
                             !.newMessages = Len(call.newMessages),
                             !.storedIds = {call.newMessages[i].id :
                                              i \in 1..Len(call.newMessages)},
                             !.prev = Summary(res)]
  /\ UNCHANGED <<messages, syncStates, conversations, mailbox, nextId, clock, horizon>>

\* both INBOXes hold one mail; a second mail may arrive in that of a1
InitOverlap ==
  /\ accounts = [a \in StoredAccounts |-> NewAccount]
  /\ messages = << >>
  /\ syncStates = [a \in StoredAccounts |-> NoSyncState]
  /\ conversations = << >>
  /\ mailbox = [a \in StoredAccounts |-> <<PlainRaw("m1", "ok", FALSE)>>]
  /\ nextId = 0
  /\ clock = 1
  /\ res = NoRes
  /\ horizon = MaxClockOverlap
  /\ running = NoCalls

NextOverlap ==
  \/ \E a \in StoredAccounts : Deliver(a, PlainRaw("m2", "ok", FALSE))
  \/ \E w \in Workers, a \in StoredAccounts, cap \in CapChoices : StartSync(w, a, cap)
  \/ \E w \in Workers : GetSyncState(w)
  \/ \E w \in Workers : FetchMessagesCall(w)
  \/ \E w \in Workers : CheckDuplicate(w)
  \/ \E w \in Workers : SaveMessagesRead(w)
  \/ \E w \in Workers : SaveMessagesWrite(w)
  \/ \E w \in Workers : SaveSyncStateRead(w)
  \/ \E w \in Workers : SaveSyncStateWrite(w)
  \/ \E w \in Workers : UpdateLastSyncGet(w)
  \/ \E w \in Workers : SaveAccountRead(w)
  \/ \E w \in Workers : SaveAccountWrite(w)

SpecOverlap == InitOverlap /\ [][NextOverlap]_vars

\* ------------------------------------------------------------------------
\* Specification SpecIngest: syncAccount over INBOXes with unusable mail
\* ------------------------------------------------------------------------
\* the raw items an INBOX may hold: two mails, a mail without Message-ID and a
\* mail simpleParser rejects
IngestRaw ==
  {PlainRaw("m1", "ok", FALSE), PlainRaw("m2", "ok", FALSE),
   PlainRaw("", "ok", FALSE), PlainRaw("m3", "throws", FALSE)}

\* the INBOX contents the specification starts from
IngestBoxes == UNION {[1..n -> IngestRaw] : n \in 0..MaxIngest}

InitIngest ==
  /\ accounts = [a \in StoredAccounts |-> NewAccount]
  /\ messages = << >>
  /\ syncStates = [a \in StoredAccounts |-> NoSyncState]
  /\ conversations = << >>
  /\ \E box \in IngestBoxes :
       mailbox = [a \in StoredAccounts |->
                    IF a = "a1" THEN box ELSE <<PlainRaw("m1", "ok", FALSE)>>]
  /\ nextId = 0
  /\ clock = 1
  /\ res = NoRes
  /\ horizon = MaxClockIngest
  /\ running = NoCalls

NextIngest ==
  \E a \in StoredAccounts, cap \in CapChoices : SyncAccount(a, cap, "none", TRUE)

SpecIngest == InitIngest /\ [][NextIngest]_vars

\* ------------------------------------------------------------------------
\* Specification SpecReplySubject: the subject MessageService.sendMessage sends
\* ------------------------------------------------------------------------
\* A subject is here the sequence of its characters.
\* String.prototype.toLowerCase on the letters the subjects use in upper case
LowerCaseLetter(c) == IF c = "R" THEN "r" ELSE IF c = "E" THEN "e" ELSE c

\* subject.toLowerCase().startsWith('re:')
StartsWithRe(subject) ==
  /\ Len(subject) >= 3
  /\ LowerCaseLetter(subject[1]) = "r"
  /\ LowerCaseLetter(subject[2]) = "e"
  /\ subject[3] = ":"

RePrefix == <<"R", "e", ":", " ">>

\* the subject handed to the provider and stored with the outgoing message:
\* target is request.inReplyTo, original the message found for it (<< >> for
\* null)
ReplySubject(subject, target, original) ==
  IF target # NoId /\ original # << >> /\ ~StartsWithRe(subject)
    THEN RePrefix \o original[1].subject
    ELSE subject

\* the subjects of the requests and of the stored messages
SubjectTexts ==
  LET hello == <<"H", "i">>
      update == <<"U", "p">> IN
  {hello, update, << >>, <<"R", "e", "g">>,
   RePrefix \o hello, <<"R", "E", ":", " ">> \o hello, <<"r", "e", ":">> \o hello,
   RePrefix \o update, RePrefix \o RePrefix \o hello, <<"F", "w", ":", " ">> \o hello}

ComposeReplySubject ==
  /\ clock < horizon
  /\ res.op = "none"
  /\ res' = [res EXCEPT !.op = "replySubject", !.success = TRUE,
                        !.outSubject = ReplySubject(res.subject, res.target, res.targetMsg)]
  /\ clock' = clock + 1
  /\ UNCHANGED <<accounts, messages, syncStates, conversations, mailbox, nextId, horizon, running>>

\* a request without inReplyTo, one whose inReplyTo names no stored message,
\* and one whose inReplyTo names a stored message
InitReplySubject ==
  /\ accounts = [a \in StoredAccounts |-> NewAccount]
  /\ messages = << >>
  /\ syncStates = [a \in StoredAccounts |-> NoSyncState]
  /\ conversations = << >>
  /\ mailbox = [a \in StoredAccounts |-> << >>]
  /\ nextId = 1
  /\ clock = 1
  /\ \E subject \in SubjectTexts, target \in {NoId, MissingId, 1}, original \in SubjectTexts :
       /\ target # 1 => original = << >>
       /\ res = [NoRes EXCEPT !.subject = subject, !.target = target,
                              !.targetMsg = IF target = 1 THEN <<[id |-> 1, subject |-> original]>>
                                            ELSE << >>]
  /\ horizon = clock + 1
  /\ running = NoCalls

NextReplySubject == ComposeReplySubject

SpecReplySubject == InitReplySubject /\ [][NextReplySubject]_vars

\* ------------------------------------------------------------------------
\* Specification SpecLive: syncAccount repeated on a fixed INBOX
\* ------------------------------------------------------------------------
\* the listing of a finite set of uids in ascending order
AscendingOrder(S) ==
  [i \in 1..Cardinality(S) |->
     CHOOSE u \in S : Cardinality({v \in S : v < u}) = i - 1]

\* the order in which a transport that delivers by ascending uid hands over
\* what the search of the next fetchMessages call matches
AscendingDelivery(a) ==
  IF a \in DOMAIN accounts /\ accounts[a].status = "active"
    THEN AscendingOrder(SearchMatches(mailbox[a], syncStates[a].lastUid))
    ELSE << >>

\* syncAccount with a transport that delivers by ascending uid and does not fail
SyncAccountAscending(a, cap) ==
  /\ clock < horizon
  /\ LET r == SyncAccountResult(a, cap, "none", TRUE, AscendingDelivery(a)) IN
       /\ accounts' = r.st.accounts
       /\ messages' = r.st.messages
       /\ syncStates' = r.st.syncStates
       /\ nextId' = r.st.nextId
       /\ res' = r.res
  /\ clock' = clock + 1
  /\ UNCHANGED <<conversations, mailbox, horizon, running>>

\* the account whose synchronisation is repeated
LiveAccount == "a1"

\* the raw items its INBOX may hold: those of SpecIngest and a mail received
\* before the account was created
LiveRaw == IngestRaw \cup {PlainRaw("m2", "ok", TRUE)}

LiveBoxes == UNION {[1..n -> LiveRaw] : n \in 0..MaxIngest}

InitLive ==
  /\ accounts = [a \in StoredAccounts |-> NewAccount]
  /\ messages = << >>
  /\ syncStates = [a \in StoredAccounts |-> NoSyncState]
  /\ conversations = << >>
  /\ \E box \in LiveBoxes :
       mailbox = [a \in StoredAccounts |->
                    IF a = LiveAccount THEN box ELSE <<PlainRaw("m1", "ok", FALSE)>>]
  /\ nextId = 0
  /\ clock = 1
  /\ res = NoRes
  /\ horizon = MaxClockLive
  /\ running = NoCalls

NextLive == \E cap \in CapChoices : SyncAccountAscending(LiveAccount, cap)

\* the caller repeats the call as long as the observed run lasts
SpecLive == InitLive /\ [][NextLive]_vars /\ WF_vars(NextLive)

\* ------------------------------------------------------------------------
\* Specification SpecRead: the read state of messages and conversations
\* ------------------------------------------------------------------------
\* MessageService.markAsRead
MarkAsRead(id) ==
  /\ clock < horizon
  /\ messages' = UpdateMessage(messages, id, "read", TRUE)
  /\ res' = [NoRes EXCEPT !.op = "markAsRead", !.target = id, !.success = TRUE,
                          !.targetMsg = GetMessage(messages, id), !.prev = Summary(res)]
  /\ clock' = clock + 1
  /\ UNCHANGED <<accounts, syncStates, conversations, mailbox, nextId, horizon, running>>

\* MessageService.markAsUnread
MarkAsUnread(id) ==
  /\ clock < horizon
  /\ messages' = UpdateMessage(messages, id, "new", FALSE)
  /\ res' = [NoRes EXCEPT !.op = "markAsUnread", !.target = id, !.success = TRUE,
                          !.targetMsg = GetMessage(messages, id), !.prev = Summary(res)]
  /\ clock' = clock + 1
  /\ UNCHANGED <<accounts, syncStates, conversations, mailbox, nextId, horizon, running>>

\* updateMessage(id, { status })
UpdateMessageStatus(msgs, id, status) ==
  LET i == FindIndex({j \in DOMAIN msgs : msgs[j].id = id}) IN
  IF i > 0 THEN [msgs EXCEPT ![i].status = status] ELSE msgs

\* MessageService.archiveMessage
ArchiveMessage(id) ==
  /\ clock < horizon
  /\ messages' = UpdateMessageStatus(messages, id, "archived")
  /\ res' = [NoRes EXCEPT !.op = "archive", !.target = id, !.success = TRUE,
                          !.targetMsg = GetMessage(messages, id), !.prev = Summary(res)]
  /\ clock' = clock + 1
  /\ UNCHANGED <<accounts, syncStates, conversations, mailbox, nextId, horizon, running>>

\* the loop of markConversationAsRead over the messages of the conversation
RECURSIVE MarkAllRead(_, _)
MarkAllRead(msgs, linked) ==
  IF linked = << >> THEN msgs
  ELSE MarkAllRead(IF ~Head(linked).isRead
                     THEN UpdateMessage(msgs, Head(linked).id, "read", TRUE)
                     ELSE msgs,
                   Tail(linked))

\* ConversationService.markConversationAsRead
MarkConversationAsRead(cid) ==
  /\ clock < horizon
  /\ messages' = MarkAllRead(messages, GetConversationMessages(messages, cid))
  /\ conversations' = UpdateConversation(conversations, cid, [unreadCount |-> 0])
  /\ res' = [NoRes EXCEPT !.op = "markConversationAsRead", !.target = cid,
                          !.success = TRUE, !.prev = Summary(res)]
  /\ clock' = clock + 1
  /\ UNCHANGED <<accounts, syncStates, mailbox, nextId, horizon, running>>

\* ConversationService.decrementUnreadCount
DecrementUnreadCount(cid) ==
  /\ clock < horizon
  /\ LET found == GetConversation(conversations, cid) IN
     conversations' = IF found # << >> /\ found[1].unreadCount > 0
                        THEN UpdateConversation(conversations, cid,
                                                [unreadCount |-> found[1].unreadCount - 1])
                        ELSE conversations
  /\ res' = [NoRes EXCEPT !.op = "decrementUnreadCount", !.target = cid,
                          !.success = TRUE, !.prev = Summary(res)]
  /\ clock' = clock + 1
  /\ UNCHANGED <<accounts, messages, syncStates, mailbox, nextId, horizon, running>>

\* the INBOX of a1 holds a mail and the peer's reply to it
InitRead ==
  /\ accounts = [a \in StoredAccounts |-> NewAccount]
  /\ messages = << >>
  /\ syncStates = [a \in StoredAccounts |-> NoSyncState]
  /\ conversations = << >>
  /\ mailbox = [a \in StoredAccounts |->
                  IF a = "a1"
                    THEN <<PlainRaw("m1", "ok", FALSE), ReplyRaw("m2", "m1", <<"m1">>)>>
                    ELSE << >>]
  /\ nextId = 0
  /\ clock = 1
  /\ res = NoRes
  /\ horizon = MaxClockRead
  /\ running = NoCalls

NextRead ==
  \/ SyncAccount("a1", DefaultMaxMessages, "none", TRUE)
  \/ MigrateConversations
  \/ \E target \in ReplyTargets : SendMessage("a1", target, TRUE)
  \/ \E id \in MessageIds : MarkAsRead(id)
  \/ \E id \in MessageIds : MarkAsUnread(id)
  \/ \E id \in MessageIds : ArchiveMessage(id)
  \/ \E cid \in ConversationIds : MarkConversationAsRead(cid)
  \/ \E cid \in ConversationIds : DecrementUnreadCount(cid)
  \/ \E cid \in ConversationIds : RecalculateStats(cid)

SpecRead == InitRead /\ [][NextRead]_vars

\* ------------------------------------------------------------------------
\* Properties
\* ------------------------------------------------------------------------
MessagesOf(a) == SelectSeq(messages, LAMBDA m : m.accountId = a)

StoredById(id) == GetMessage(messages, id)

\* C1: no two stored messages have the same (accountId, providerMessageId)
C1_DedupInvariant ==
  \A i, j \in 1..Len(messages) :
    i # j => ~(/\ messages[i].accountId = messages[j].accountId
              /\ messages[i].providerMessageId = messages[j].providerMessageId)

\* the last two service calls were successful syncAccount calls of one account
\* and the INBOX did not change between them
SyncedTwice ==
  /\ res.op = "sync" /\ res.success /\ res.fresh
  /\ res.prev.op = "sync" /\ res.prev.account = res.account /\ res.prev.success

NoneOld(a) == \A u \in DOMAIN mailbox[a] : ~mailbox[a][u].old

C4_FailureKeepsCursor ==
  (res.op = "sync" /\ ~res.success /\ res.account \in StoredAccounts)
    => syncStates[res.account] = res.before

\* C5: the syncAccount call that follows a call that failed at the transport
\* and marked the account asks the transport again from the same cursor, and
\* succeeds when nothing fails this time
C5_RetryAfterTransportFailure ==
  (/\ res.op = "sync" /\ res.fault = "none"
   /\ res.prev.op = "sync" /\ res.prev.account = res.account
   /\ res.prev.fault = "fetch" /\ res.prev.marked)
    => (res.asked /\ res.cursor = res.prev.cursor /\ res.success)

\* C7: every message a successful syncAccount call stored is linked to an
\* existing conversation of its account whose threadIds holds its Message-ID
C7_SyncAggregatesWhatItStores ==
  (res.op = "sync" /\ res.success) =>
    \A id \in res.storedIds :
      \A k \in 1..Len(StoredById(id)) :
        LET m == StoredById(id)[k] IN
        \E i \in 1..Len(conversations) :
          /\ conversations[i].id = m.conversationId
          /\ conversations[i].accountId = m.accountId
          /\ m.providerMessageId \in Range(conversations[i].threadIds)

\* the last call was a reply to a stored message that reached the transport
RepliedToStored == res.op = "send" /\ res.sent /\ res.targetMsg # << >>

\* C8: the reply handed to the transport, and the reply stored, name the
\* target's Message-ID as inReplyTo and carry the target's references followed
\* by the target's Message-ID
C8_ReplyChainAppendOnly ==
  RepliedToStored =>
    LET t == res.targetMsg[1]
        chain == t.references \o <<t.providerMessageId>> IN
    /\ res.outInReplyTo = t.providerMessageId
    /\ res.outReferences = chain
    /\ res.success =>
         /\ StoredById(res.outId) # << >>
         /\ StoredById(res.outId)[1].inReplyTo = t.providerMessageId
         /\ StoredById(res.outId)[1].references = chain

C8_Witness ==
  /\ RepliedToStored /\ res.success
  /\ Len(res.targetMsg[1].references) > 0
  /\ Len(res.outReferences) = Len(res.targetMsg[1].references) + 1

\* C9: a send that names a reply target that is not stored fails, hands
\* nothing to the transport and stores nothing
C9_MissingTargetFails ==
  (res.op = "send" /\ res.target # NoId /\ res.targetMsg = << >>)
    => (~res.success /\ ~res.sent /\ res.outId = NoId)

\* C6: the messageCount of every stored conversation is the number of stored
\* messages whose conversationId is the id of that conversation
C6_AggregateConsistency ==
  \A i \in 1..Len(conversations) :
    conversations[i].messageCount =
      Cardinality({j \in 1..Len(messages) :
                     messages[j].conversationId = conversations[i].id})

\* C10: after a successful reply to a message of conversation C the stored
\* outgoing message is linked to C, the messageCount of C has grown by one
\* and the threadIds of C hold the Message-ID of the sent mail
C10_ReplyJoinsTargetConversation ==
  (/\ res.op = "send" /\ res.success
   /\ res.targetMsg # << >>
   /\ res.targetMsg[1].conversationId # NoId
   /\ GetConversation(conversations, res.targetMsg[1].conversationId) # << >>)
    => LET C == GetConversation(conversations, res.targetMsg[1].conversationId)[1] IN
       /\ StoredById(res.outId) # << >>
       /\ StoredById(res.outId)[1].conversationId = C.id
       /\ C.messageCount = res.convCountBefore + 1
       /\ StoredById(res.outId)[1].providerMessageId \in Range(C.threadIds)

\* C11: after a successful reply to a stored message the target is stored
\* with status replied and isRead true, and the outgoing message is stored with
\* isOutgoing true, status replied and the account's address as from
C11_TargetMarkedReplied ==
  (RepliedToStored /\ res.success) =>
    /\ StoredById(res.target) # << >>
    /\ StoredById(res.target)[1].status = "replied"
    /\ StoredById(res.target)[1].isRead
    /\ StoredById(res.outId) # << >>
    /\ StoredById(res.outId)[1].isOutgoing
    /\ StoredById(res.outId)[1].status = "replied"
    /\ StoredById(res.outId)[1].from = AccountAddress(res.account)

\* a successful reply to a message that was stored as new and unread
C11_Witness ==
  /\ RepliedToStored /\ res.success
  /\ res.targetMsg[1].status = "new" /\ ~res.targetMsg[1].isRead
  /\ StoredById(res.target)[1].isRead
  /\ StoredById(res.outId) # << >>

\* the last call was a sendMessage that met a missing account, an account that
\* is not active or a transport that failed
SendFailed ==
  /\ res.op = "send"
  /\ \/ res.account \notin StoredAccounts
     \/ accounts[res.account].status # "active"
     \/ res.sendError # ""

\* C12: a sendMessage call that meets a missing or not active account or a
\* failing transport returns success = false with the error (the transport's
\* as the provider reports it), has asked the transport at most once and
\* leaves the stored messages as they were
C12_SendFailureLeavesStore ==
  [][(clock' # clock /\ SendFailed') =>
       /\ ~res'.success
       /\ res'.error # ""
       /\ res'.sendError # "" => res'.error = "Failed to send email: " \o res'.sendError
       /\ res'.sends <= 1
       /\ messages' = messages]_vars

\* a reply to a stored message that failed at the transport
C12_Witness ==
  /\ res.op = "send" /\ res.sendError # "" /\ res.sends = 1
  /\ res.targetMsg # << >>
  /\ ~res.success

\* C13: when findOrCreateConversation resolves a message to a conversation that
\* is stored as closed, the conversation is stored afterwards with status open
\* and no closedAt, and the conversation returned shows the same
C13_ReopenOnActivity ==
  \A k \in DOMAIN res.matched :
    LET call == res.matched[k]
        was == GetConversation(call.before, call.returned.id) IN
    (was # << >> /\ was[1].status = "closed") =>
      /\ call.returned.status = "open" /\ call.returned.closedAt = 0
      /\ GetConversation(call.after, call.returned.id)[1].status = "open"
      /\ GetConversation(call.after, call.returned.id)[1].closedAt = 0
      /\ GetConversation(conversations, call.returned.id)[1].status = "open"
      /\ GetConversation(conversations, call.returned.id)[1].closedAt = 0

\* a message was resolved to a conversation that had been closed at some time
C13_Witness ==
  \E k \in DOMAIN res.matched :
    LET call == res.matched[k]
        was == GetConversation(call.before, call.returned.id) IN
    /\ was # << >> /\ was[1].status = "closed" /\ was[1].closedAt > 0
    /\ GetConversation(conversations, call.returned.id)[1].status = "open"

\* the subject without its leading reply/forward prefixes
RECURSIVE BaseText(_)
BaseText(subject) ==
  IF subject # << >> /\ Head(subject) \in GivenPrefixes
    THEN BaseText(Tail(subject)) ELSE subject

\* C14: normalizeSubject returns the base text of a subject made of leading
\* reply/forward prefixes (with or without counter, in any order and number)
\* and a base text
C14_SubjectPrefixesStripped ==
  res.op = "normalizeSubject" => res.normalized = BaseText(res.subject)

\* the number of stored messages linked to the conversation cid
LinkedCount(cid) ==
  Cardinality({j \in 1..Len(messages) : messages[j].conversationId = cid})

\* C15: after deleteMessage has deleted a message of a conversation, the
\* conversation is stored with messageCount equal to the number of messages
\* that remain linked to it, and is not stored any more when none remains
C15_DeletionCascades ==
  (/\ res.op = "delete" /\ res.success
   /\ res.targetMsg[1].conversationId # NoId)
    => LET cid == res.targetMsg[1].conversationId IN
       IF LinkedCount(cid) = 0
         THEN GetConversation(conversations, cid) = << >>
         ELSE /\ GetConversation(conversations, cid) # << >>
              /\ GetConversation(conversations, cid)[1].messageCount = LinkedCount(cid)

\* the positions of the stored messages linked to the conversation cid
LinkedTo(msgs, cid) == {j \in 1..Len(msgs) : msgs[j].conversationId = cid}

\* the conversation after is what recalculateStats has to make of the linked
\* messages of msgs
Recomputed(after, msgs, cid) ==
  LET linked == LinkedTo(msgs, cid)
      addresses == UNION {{msgs[j].from} \cup Range(msgs[j].to) \cup Range(msgs[j].cc) :
                            j \in linked} IN
  /\ after.messageCount = Cardinality(linked)
  /\ after.unreadCount = Cardinality({j \in linked : ~msgs[j].isRead})
  /\ Range(after.threadIds) = {msgs[j].providerMessageId : j \in linked}
  /\ Range(after.participants) \subseteq addresses
  /\ {ToLowerCase(p) : p \in Range(after.participants)} =
       {ToLowerCase(p) : p \in addresses}
  /\ \A i, k \in 1..Len(after.participants) :
       i # k => ToLowerCase(after.participants[i]) # ToLowerCase(after.participants[k])
  /\ \E j \in linked :
       /\ \A k \in linked : msgs[k].date <= msgs[j].date
       /\ after.lastMessageAt = msgs[j].date
       /\ after.lastSender = msgs[j].from
       /\ after.snippet = CreateSnippet(msgs[j].bodyText)

\* C16: recalculateStats deletes a conversation no stored message is linked
\* to; otherwise it stores the conversation with the counts, thread ids,
\* participants and last-message fields of the linked messages and with the
\* status it had
C16_RecomputeFromScratch ==
  [][(/\ clock' # clock /\ res'.op = "recalculate"
      /\ GetConversation(conversations, res'.target) # << >>)
       => LET cid == res'.target
              before == GetConversation(conversations, cid)[1]
              after == GetConversation(conversations', cid) IN
          /\ messages' = messages
          /\ IF LinkedTo(messages, cid) = {} THEN after = << >>
             ELSE /\ after # << >>
                  /\ after[1].status = before.status
                  /\ after[1].accountId = before.accountId
                  /\ Recomputed(after[1], messages, cid)]_vars

\* recalculateStats has changed the messageCount of a conversation that keeps
\* linked messages
C16_Witness ==
  /\ res.op = "recalculate"
  /\ GetConversation(conversations, res.target) # << >>
  /\ GetConversation(conversations, res.target)[1].messageCount # res.convCountBefore
  /\ LinkedTo(messages, res.target) # {}

\* the thread ids the matcher looks a message up by, in the order of the rules
RoutingKeys(m) ==
  (IF m.inReplyTo # "" THEN <<m.inReplyTo>> ELSE << >>)
    \o m.references \o <<m.providerMessageId>>

\* the conversation c is of account a and has tid among its threadIds
Holds(c, a, tid) == c.accountId = a /\ tid \in Range(c.threadIds)

ConversationIdsOf(convs) == {convs[i].id : i \in 1..Len(convs)}

\* C17: the matcher returns a conversation of the message's account that
\* holds the first of inReplyTo, the references in order and the
\* providerMessageId that any conversation of the account holds, and the
\* message joins it (messageCount grows by one, threadIds holds its id); when
\* there is none it creates an open conversation with threadIds =
\* [providerMessageId], messageCount 1 and unreadCount 0 or 1 by isRead
C17_ConversationRouting ==
  \A n \in DOMAIN res.matched :
    LET call == res.matched[n]
        m == call.message
        keys == RoutingKeys(m)
        hits == {k \in DOMAIN keys :
                   \E i \in DOMAIN call.before : Holds(call.before[i], m.accountId, keys[k])}
    IN
    IF hits # {}
      THEN LET k == CHOOSE h \in hits : \A g \in hits : h <= g
               was == GetConversation(call.before, call.returned.id)
               now == GetConversation(call.done, call.returned.id) IN
           /\ was # << >>
           /\ Holds(was[1], m.accountId, keys[k])
           /\ ConversationIdsOf(call.done) = ConversationIdsOf(call.before)
           /\ now[1].messageCount = was[1].messageCount + 1
           /\ m.providerMessageId \in Range(now[1].threadIds)
      ELSE /\ call.returned.id \notin ConversationIdsOf(call.before)
           /\ GetConversation(call.done, call.returned.id) = <<call.returned>>
           /\ call.returned.accountId = m.accountId
           /\ call.returned.status = "open"
           /\ call.returned.threadIds = <<m.providerMessageId>>
           /\ call.returned.messageCount = 1
           /\ call.returned.unreadCount = IF m.isRead THEN 0 ELSE 1

\* a message was routed to the conversation that holds its inReplyTo while
\* another conversation of the account held its first reference
C17_Witness ==
  \E n \in DOMAIN res.matched :
    LET call == res.matched[n]
        m == call.message IN
    /\ m.inReplyTo # "" /\ m.references # << >>
    /\ \E i, j \in DOMAIN call.before :
         /\ i # j
         /\ Holds(call.before[i], m.accountId, m.inReplyTo)
         /\ Holds(call.before[j], m.accountId, m.references[1])
         /\ call.returned.id = call.before[i].id

\* C18: the threadId of every stored message, incoming or outgoing, is the
\* first of its references when it has references, else its inReplyTo when
\* it has one, else its own providerMessageId
C18_ThreadIdResolution ==
  \A i \in 1..Len(messages) :
    LET m == messages[i] IN
    m.threadId = IF m.references # << >> THEN m.references[1]
                 ELSE IF m.inReplyTo # "" THEN m.inReplyTo
                 ELSE m.providerMessageId

\* an incoming message whose first reference is not its inReplyTo is stored
\* together with an outgoing reply
C18_Witness ==
  /\ \E i \in 1..Len(messages) :
       /\ ~messages[i].isOutgoing
       /\ Len(messages[i].references) > 1
       /\ messages[i].references[1] # messages[i].inReplyTo
       /\ messages[i].threadId = messages[i].references[1]
  /\ \E i \in 1..Len(messages) :
       /\ messages[i].isOutgoing
       /\ messages[i].inReplyTo # ""
       /\ messages[i].threadId = messages[i].references[1]

\* C19: the threadIds of every stored conversation hold the providerMessageId
\* of every stored message linked to it, and hold no entry twice
C19_ThreadIdsCoverMembers ==
  \A i \in 1..Len(conversations) :
    LET c == conversations[i] IN
    /\ \A j \in LinkedTo(messages, c.id) :
         messages[j].providerMessageId \in Range(c.threadIds)
    /\ Cardinality(Range(c.threadIds)) = Len(c.threadIds)

\* recalculateStats has rebuilt a conversation that holds, besides another
\* message, two linked messages with one providerMessageId
C19_Witness ==
  /\ res.op = "recalculate"
  /\ \E i \in 1..Len(conversations) :
       /\ conversations[i].id = res.target
       /\ \E j, k \in LinkedTo(messages, res.target) :
            j # k /\ messages[j].providerMessageId = messages[k].providerMessageId

\* the raw items with a Message-ID that the search of the last syncAccount
\* call matched
MatchedWithMessageId ==
  {u \in SearchMatches(mailbox[res.account], res.cursor) :
     mailbox[res.account][u].mid # ""}

\* C20: every stored message has a providerMessageId, the Message-ID of the
\* raw item it was made from or the one the transport gave the sent mail; a
\* syncAccount call in which no collaborator fails succeeds and counts as new
\* at most the matched raw items that have a Message-ID
C20_NoMessageWithoutMessageId ==
  /\ \A i \in 1..Len(messages) :
       LET m == messages[i] IN
       /\ m.providerMessageId # ""
       /\ ~m.isOutgoing =>
            /\ m.providerUid \in DOMAIN mailbox[m.accountId]
            /\ mailbox[m.accountId][m.providerUid].mid = m.providerMessageId
       /\ m.isOutgoing => m.providerMessageId = SmtpMessageId(m.id)
  /\ (res.op = "sync" /\ res.asked /\ res.fault = "none") =>
       /\ res.success
       /\ res.newMessages <= Cardinality(MatchedWithMessageId)

\* a successful syncAccount call was handed a raw item without Message-ID
\* next to one it stored
C20_Witness ==
  /\ res.op = "sync" /\ res.success /\ ~res.stopped
  /\ res.newMessages > 0
  /\ \E u \in SearchMatches(mailbox[res.account], res.cursor) :
       mailbox[res.account][u].mid = ""


\* the calls of workers w and v have both returned success and ran side by side
BothReturned(w, v) ==
  /\ w # v
  /\ running[w].pc = "done" /\ running[w].success /\ running[w].overlapped
  /\ running[v].pc = "done" /\ running[v].success /\ running[v].overlapped

\* C21: when two syncAccount calls for different accounts ran side by side and
\* both returned success, every message a call counted as new is stored and
\* the SyncState of each account holds the cursor its call computed
C21_ConcurrentAccountsKeepWrites ==
  \A w, v \in Workers :
    (BothReturned(w, v) /\ running[w].account # running[v].account) =>
      /\ \A i \in 1..Len(running[w].newMessages) :
           GetMessage(messages, running[w].newMessages[i].id) # << >>
      /\ syncStates[running[w].account].present
      /\ syncStates[running[w].account].lastUid = running[w].lastUid

\* every store method of the calls in progress wrote back what the file held
\* when it wrote: each store operation was as good as atomic
StoreOperationsAtomic == \A w \in Workers : ~running[w].torn

\* C22: while syncAccount calls overlap and every store operation is atomic,
\* no step lowers the persisted lastUid of an account
C22_CursorMonotoneUnderOverlap ==
  [][StoreOperationsAtomic' =>
       \A a \in StoredAccounts : syncStates'[a].lastUid >= syncStates[a].lastUid]_vars

\* C23: after two syncAccount calls for one account that ran side by side have
\* both returned, no two stored messages of the account have the same
\* providerMessageId
C23_DedupUnderOverlap ==
  \A w, v \in Workers :
    (BothReturned(w, v) /\ running[w].account = running[v].account) =>
      \A i, j \in 1..Len(messages) :
        (/\ i # j
         /\ messages[i].accountId = running[w].account
         /\ messages[j].accountId = running[w].account)
          => messages[i].providerMessageId # messages[j].providerMessageId

\* the greatest element of a non-empty set of numbers
Max(S) == CHOOSE x \in S : \A y \in S : y <= x

\* the uids of the raw items the last call processed without an error
ProcessedUids == {res.log[i].uid : i \in {j \in 1..Len(res.log) : res.log[j].outcome # "throws"}}

\* C24: after a successful syncAccount call the persisted lastUid is the
\* greatest uid among the raw items the call processed without an error (a
\* raw item dropped for its missing Message-ID included) and the lastUid the
\* call started from
C24_CursorIsMaxProcessed ==
  (res.op = "sync" /\ res.success) =>
    syncStates[res.account].lastUid = Max(ProcessedUids \cup {res.before.lastUid})

\* C25: a syncAccount call with cap N takes at most N raw items from the
\* transport, the dropped and unparseable ones included, and stores at most N
\* new messages
C25_BatchCap ==
  (res.op = "sync" /\ res.success) =>
    /\ Len(res.log) <= res.cap
    /\ res.newMessages <= res.cap

\* the last call met a raw item that simpleParser rejected
ParseFailed == \E i \in 1..Len(res.log) : res.log[i].outcome = "throws"

\* the uids of the raw items the last call parsed, in the order of delivery
ParsedUids ==
  LET parsed == SelectSeq(res.log, LAMBDA e : e.outcome = "parsed") IN
  [i \in 1..Len(parsed) |-> parsed[i].uid]

\* C26: a syncAccount call that meets a raw item whose parsing throws skips
\* that item only: the parsed messages of the batch that the store did not
\* hold are appended to the store in the order of delivery, the call returns
\* success with newMessages counting them, and the account stays active
C26_ParseFailureAbsorbed ==
  [][(clock' # clock /\ res'.op = "sync" /\ res'.asked /\ ParseFailed') =>
       LET a == res'.account
           fresh == SelectSeq(ParsedUids',
                      LAMBDA u : GetMessageByProviderId(messages, a, mailbox[a][u].mid) = << >>)
       IN
       /\ res'.success
       /\ accounts'[a].status = "active" /\ accounts'[a].lastError = ""
       /\ res'.newMessages = Len(fresh)
       /\ Len(messages') = Len(messages) + Len(fresh)
       /\ SubSeq(messages', 1, Len(messages)) = messages
       /\ \A i \in 1..Len(fresh) :
            /\ messages'[Len(messages) + i].providerUid = fresh[i]
            /\ messages'[Len(messages) + i].providerMessageId = mailbox[a][fresh[i]].mid
            /\ messages'[Len(messages) + i].accountId = a]_vars

\* a call skipped an unparseable item and stored a message delivered after it
C26_Witness ==
  /\ res.op = "sync" /\ res.success
  /\ \E i, j \in 1..Len(res.log) :
       /\ i < j
       /\ res.log[i].outcome = "throws"
       /\ res.log[j].outcome = "parsed"
       /\ \E k \in 1..Len(res.stored) : res.stored[k].providerUid = res.log[j].uid
  /\ res.newMessages = Len(res.stored)
  /\ accounts[res.account].status = "active"

\* the subject starts with two "Re:" prefixes
StartsWithTwoRe(subject) ==
  /\ StartsWithRe(subject)
  /\ \E k \in 4..Len(subject) :
       /\ \A i \in 4..(k - 1) : subject[i] = " "
       /\ StartsWithRe(SubSeq(subject, k, Len(subject)))

\* C27: the subject of a reply is the requested subject when that starts with
\* "Re:" in any letter case, else the requested subject behind "Re: "; it
\* starts with two "Re:" prefixes only when the requested subject did
C27_ReplySubjectPrefix ==
  (res.op = "replySubject" /\ res.target # NoId) =>
    /\ res.outSubject = IF StartsWithRe(res.subject) THEN res.subject
                        ELSE RePrefix \o res.subject
    /\ StartsWithTwoRe(res.outSubject) => StartsWithTwoRe(res.subject)

\* every mail of the INBOX of a that parseMessageFast finds a Message-ID in and
\* that was received since the account was created is stored
Ingested(a) ==
  \A u \in DOMAIN mailbox[a] :
    (mailbox[a][u].parse = "ok" /\ mailbox[a][u].mid # "" /\ ~mailbox[a][u].old) =>
      GetMessageByProviderId(messages, a, mailbox[a][u].mid) # << >>

\* a further syncAccount call, with whatever cap, returns success with
\* newMessages = 0 and saves the lastUid that is saved already
Quiescent(a) ==
  \A cap \in CapChoices :
    LET r == SyncAccountResult(a, cap, "none", TRUE, AscendingDelivery(a)) IN
    /\ r.res.success
    /\ r.res.newMessages = 0
    /\ r.st.messages = messages
    /\ r.st.syncStates[a].lastUid = syncStates[a].lastUid

UnreadLinked(cid) ==
  Len(SelectSeq(messages, LAMBDA m : m.conversationId = cid /\ ~m.isRead))

\* C29: the unreadCount of every conversation is the number of unread stored
\* messages linked to it, and is not negative
C29_UnreadCountConsistent ==
  \A i \in 1..Len(conversations) :
    /\ conversations[i].unreadCount = UnreadLinked(conversations[i].id)
    /\ conversations[i].unreadCount >= 0

\* C30: a stored message with status new is unread, one with status read or
\* replied is read
C30_ReadStateAgreesWithStatus ==
  \A i \in 1..Len(messages) :
    /\ messages[i].status = "new" => ~messages[i].isRead
    /\ messages[i].status \in {"read", "replied"} => messages[i].isRead

\* a message was marked read, another was replied to, and a read message was
\* last marked unread again
C30_Witness ==
  /\ res.op = "markAsUnread" /\ res.targetMsg # << >>
  /\ res.targetMsg[1].isRead
  /\ \E i, j \in 1..Len(messages) :
       /\ messages[i].id = res.target
       /\ messages[i].status = "new" /\ ~messages[i].isRead
       /\ messages[j].status = "replied" /\ messages[j].isRead /\ ~messages[j].isOutgoing

====
